---------------------------- MODULE Spec2Model ----------------------------
(***************************************************************************)
(* Model of src/code.ts, the main thread of the "Export Master" Figma      *)
(* plugin: the OperationManager token, the message handler, the tree scan  *)
(* (scanImages / checkNodeForImages / addUniqueImage) and the batch fetch  *)
(* (fetchImageBytes).                                                      *)
(*                                                                         *)
(* JavaScript is single threaded: a handler runs until it awaits.  The     *)
(* variable `running` names the handler that holds the thread (0: the      *)
(* event loop is idle and may start any ready task).                       *)
(*                                                                         *)
(* Strings that the code computes with (node names, file names) are        *)
(* sequences of one-character strings; strings that are only compared      *)
(* (message types, node types, hashes) are TLA+ strings.                   *)
(***************************************************************************)
EXTENDS Integers, Sequences, FiniteSets, TLC

VARIABLES
    now,          \* the wall clock, in ms: what Date.now() last returned
    currentOperation, \* the OperationManager: [id, cancelled]
    uiReady,      \* let uiReady
    foundImages,  \* let foundImages
    doc,          \* the host document: figma.currentPage and its nodes
    selection,    \* figma.currentPage.selection (node indices)
    procs,        \* the invocations of figma.ui.onmessage that may suspend
    running,      \* index in procs of the invocation holding the thread, or 0
    out,          \* what the handler posted outside scans and fetches
    issued,       \* history: the tokens start() returned, in order
    cancels,      \* history: the number of calls of cancel()
    cancelSinceStart, \* history: cancel() was called since the last start()
    faults,       \* the failing host calls the host may still produce
    call          \* a call of a helper function: [fn, arg, ret]

vars == <<now, currentOperation, uiReady, foundImages, doc, selection, procs,
          running, out, issued, cancels, cancelSinceStart, faults, call>>

\* the state of the plugin itself
progVars == <<now, currentOperation, uiReady, foundImages, doc, selection, procs,
              running, out, issued, cancels, cancelSinceStart, faults>>

\* no helper function is being called
NoCall == [fn |-> "", arg |-> <<>>, ret |-> <<>>]

---------------------------------------------------------------------------
(* Bounds of the model.                                                    *)

\* handler invocations (scan-images / download-images messages) per run
MaxOps == 2
\* clock advances per run
MaxTicks == 1
\* calls of cancel() per run
MaxCancels == 1
\* images in one download request
MaxImages == 3
\* failing host calls per run of the plugin
MaxFaults == 1
\* failing host calls per run of a single fetch
MaxFetchFaults == 3
\* nodes of a generated document
MaxNodes == 3
\* CONFIG.BATCH_SIZE is 10 in the source (src/code.ts:8).  Ten concurrent
\* item fetches are out of reach of exhaustive search; the model is
\* parametric in the batch size and is checked with this scaled value.
BATCH_SIZE == 2
\* length of the short names given to sanitizeFileName
MaxNameLen == 3
\* length of what follows the padding of a long name
MaxTailLen == 2
\* length of the byte buffers given to detectImageFormat
MaxBufLen == 5

(* CONFIG, src/code.ts:7-17.                                               *)
SCAN_CHUNK_SIZE == 100
UPDATE_INTERVAL_MS == 100
MAX_FILE_SIZE == 100 * 1024 * 1024
MAX_RETRY_ATTEMPTS == 3
RETRY_DELAY_MS == 100

---------------------------------------------------------------------------
(* Small helpers.                                                          *)

Min(a, b) == IF a < b THEN a ELSE b

Range(s) == {s[i] : i \in 1..Len(s)}

RECURSIVE Reverse(_)
Reverse(s) == IF s = <<>> THEN <<>> ELSE Append(Reverse(Tail(s)), Head(s))

RECURSIVE SelectSeqIdx(_, _)
\* the indices of s, in order, that are in the set keep
SelectSeqIdx(n, keep) ==
    IF n = 0 THEN <<>>
    ELSE IF n \in keep THEN Append(SelectSeqIdx(n - 1, keep), n)
         ELSE SelectSeqIdx(n - 1, keep)

\* Math.ceil(a / b) for naturals, b > 0
CeilDiv(a, b) == (a + b - 1) \div b

---------------------------------------------------------------------------
(* OperationManager, src/code.ts:49-66.                                    *)

\* private id: number = 0; private cancelled: boolean = false
OperationManager == [id |-> 0, cancelled |-> FALSE]

\* a start() that forgets to clear the flag
startKeepsCancelled(m, t) == [m EXCEPT !.id = t]

\* start(): this.id = Date.now(); this.cancelled = false; return this.id
\* (t is what Date.now() returns; the returned token is the new id)
start(m, t) == [id |-> t, cancelled |-> FALSE]

\* cancel(): this.cancelled = true
cancel(m) == [m EXCEPT !.cancelled = TRUE]

\* isActive(opId): !this.cancelled && this.id === opId
isActive(m, opId) == ~m.cancelled /\ m.id = opId

\* The readings Date.now() may give after it gave n: the clock does not go
\* back; it stays within the same millisecond, moves on by one, or moves
\* on by more than the scan's update interval.
ClockNext(n) ==
    {n} \cup
    {t \in {n + 1, n + UPDATE_INTERVAL_MS + 1} :
        ((t - 1) \div (UPDATE_INTERVAL_MS + 1))
          + ((t - 1) % (UPDATE_INTERVAL_MS + 1)) <= MaxTicks}

---------------------------------------------------------------------------
(* Names: sanitizeFileName, src/code.ts:446-453.                           *)

\* [<>:"/\\|?*\x00-\x1f]
IllegalChars == {"<", ">", ":", "\"", "/", "\\", "|", "?", "*",
                 "\t", "\n", "\r", "\f"}
\* what String.prototype.trim removes once the control characters are gone
WhiteSpace == {" "}

FILE_NAME_MAX == 255

image == <<"i", "m", "a", "g", "e">>

\* .replace(/[<>:"/\\|?*\x00-\x1f]/g, "_")
ReplaceIllegal(s) == [i \in 1..Len(s) |-> IF s[i] \in IllegalChars THEN "_" ELSE s[i]]

RECURSIVE TrimLeft(_)
TrimLeft(s) ==
    IF s # <<>> /\ Head(s) \in WhiteSpace THEN TrimLeft(Tail(s)) ELSE s

RECURSIVE TrimRight(_)
TrimRight(s) ==
    IF s # <<>> /\ s[Len(s)] \in WhiteSpace
    THEN TrimRight(SubSeq(s, 1, Len(s) - 1)) ELSE s

\* .trim()
Trim(s) == TrimRight(TrimLeft(s))

\* .substring(0, n)
Substring0(s, n) == SubSeq(s, 1, Min(Len(s), n))

\* name ? name.replace(..).trim().substring(0, 255) || "image" : "image"
sanitizeFileName(name) ==
    IF name = <<>> THEN image
    ELSE LET r == Substring0(Trim(ReplaceIllegal(name)), FILE_NAME_MAX)
         IN  IF r = <<>> THEN image ELSE r

Digit == <<"0", "1", "2", "3", "4", "5", "6", "7", "8", "9">>

RECURSIVE Dec(_)
\* the decimal digits of a natural number, as a template literal prints it
Dec(n) == IF n < 10 THEN <<Digit[n + 1]>>
          ELSE Dec(n \div 10) \o <<Digit[(n % 10) + 1]>>

\* an if instead of the while: the suffixed name is not looked up again
NameOnce(baseName, uniqueName, counter, existingNames) ==
    IF uniqueName \in existingNames
    THEN baseName \o <<"_">> \o Dec(counter)
    ELSE uniqueName

RECURSIVE NameLoop(_, _, _, _)
\* while (existingNames.has(uniqueName)) uniqueName = `${baseName}_${counter++}`
NameLoop(baseName, uniqueName, counter, existingNames) ==
    IF uniqueName \in existingNames
    THEN NameLoop(baseName, baseName \o <<"_">> \o Dec(counter), counter + 1,
                  existingNames)
    ELSE uniqueName

---------------------------------------------------------------------------
(* The host document.  A node is a record; doc is the sequence of the      *)
(* page's nodes, a node's parent is the index of its parent node, or 0     *)
(* for the page itself, and its children are the nodes naming it as        *)
(* parent, in index order.                                                 *)

Img(h) == [type |-> "IMAGE", imageHash |-> h]
Solid == [type |-> "SOLID", imageHash |-> ""]

Hero == <<"H", "e", "r", "o">>
Icon == <<"I", "c", "o", "n">>

\* The kinds of node a generated document is built from.  hasFills /
\* hasStrokes: the node has the property and it is an array (not
\* figma.mixed); container: the node has a children property.
Styles == <<
    [name |-> Hero, type |-> "FRAME", container |-> TRUE,
     hasFills |-> TRUE, fills |-> <<Solid>>,
     hasStrokes |-> TRUE, strokes |-> <<>>],
    [name |-> <<"g">>, type |-> "GROUP", container |-> TRUE,
     hasFills |-> FALSE, fills |-> <<>>,
     hasStrokes |-> FALSE, strokes |-> <<>>],
    [name |-> Icon, type |-> "RECTANGLE", container |-> FALSE,
     hasFills |-> TRUE, fills |-> <<Img("H1")>>,
     hasStrokes |-> TRUE, strokes |-> <<>>],
    [name |-> Icon, type |-> "RECTANGLE", container |-> FALSE,
     hasFills |-> TRUE, fills |-> <<Solid, Img("H2"), Img("H3")>>,
     hasStrokes |-> TRUE, strokes |-> <<Img("H1")>>],
    [name |-> Icon \o <<"_", "1">>, type |-> "RECTANGLE", container |-> FALSE,
     hasFills |-> TRUE, fills |-> <<Img("H4")>>,
     hasStrokes |-> TRUE, strokes |-> <<>>],
    [name |-> <<" ", "I", "c", ":", "n">>, type |-> "INSTANCE", container |-> TRUE,
     hasFills |-> TRUE, fills |-> <<Img("")>>,
     hasStrokes |-> TRUE, strokes |-> <<Solid, Img("H5")>>] >>

MkNode(style, parent) ==
    [name |-> Styles[style].name, type |-> Styles[style].type,
     container |-> Styles[style].container, parent |-> parent,
     hasFills |-> Styles[style].hasFills, fills |-> Styles[style].fills,
     hasStrokes |-> Styles[style].hasStrokes, strokes |-> Styles[style].strokes]

\* every document of n nodes: each node hangs under the page or under an
\* earlier node that has children
DocsOfSize(n) ==
    {[i \in 1..n |-> MkNode(st[i], par[i])] :
        <<par, st>> \in
          {ps \in [1..n -> 0..n] \X [1..n -> 1..Len(Styles)] :
              \A i \in 1..n :
                  /\ ps[1][i] < i
                  /\ ps[1][i] # 0 => Styles[ps[2][ps[1][i]]].container}}

Docs == UNION {DocsOfSize(n) : n \in 0..MaxNodes}

\* node.children (page.children for 0), as node indices
children(d, p) == SelectSeqIdx(Len(d), {i \in 1..Len(d) : d[i].parent = p})

RECURSIVE Descendants(_, _)
\* the nodes reachable from the nodes of the set s through children
Descendants(d, s) ==
    LET kids == {i \in 1..Len(d) : d[i].parent \in s} \ s
    IN  IF kids = {} THEN s ELSE Descendants(d, s \cup kids)

---------------------------------------------------------------------------
(* The JavaScript Map behind uniqueImages: a sequence of [key, value] in   *)
(* insertion order.                                                        *)

MapHas(m, k) == \E i \in 1..Len(m) : m[i].key = k

MapSet(m, k, v) ==
    IF MapHas(m, k)
    THEN [i \in 1..Len(m) |-> IF m[i].key = k THEN [key |-> k, value |-> v] ELSE m[i]]
    ELSE Append(m, [key |-> k, value |-> v])

\* Array.from(m.values())
MapValues(m) == [i \in 1..Len(m) |-> m[i].value]

---------------------------------------------------------------------------
(* addUniqueImage, src/code.ts:257-300, and checkNodeForImages,            *)
(* src/code.ts:215-255.  st is [uniqueImages, existingNames].              *)

IsContainerType(t) == t \in {"FRAME", "COMPONENT", "INSTANCE", "COMPONENT_SET"}

RECURSIVE FrameWalk(_, _)
\* let parent = node; while (parent) { ... parent = parent.parent }
\* (n: a node index, or 0 for the page)
FrameWalk(d, n) ==
    IF n = 0 THEN <<"P", "a", "g", "e">>          \* parent.type === "PAGE": break
    ELSE IF IsContainerType(d[n].type) THEN sanitizeFileName(d[n].name)
    ELSE FrameWalk(d, d[n].parent)

\* images kept per node instead of per hash
ImageKeyPerNode(imageHash, n) == <<imageHash, n>>

\* the key under which an image is kept in uniqueImages
ImageKey(imageHash, n) == imageHash

\* addUniqueImage without the uniqueImages.has(imageHash) test of line 264
addImageOverwriting(d, imageHash, n, st, active) ==
    IF ~active THEN st
    ELSE LET baseName == sanitizeFileName(d[n].name)
             uniqueName == NameLoop(baseName, baseName, 1, st.existingNames)
             frameName == FrameWalk(d, n)
         IN  [uniqueImages |->
                  MapSet(st.uniqueImages, ImageKey(imageHash, n),
                         [hash |-> imageHash, name |-> uniqueName,
                          frame |-> frameName]),
              existingNames |-> st.existingNames \cup {uniqueName}]

addUniqueImage(d, imageHash, n, st, active) ==
    IF ~active \/ MapHas(st.uniqueImages, ImageKey(imageHash, n)) THEN st
    ELSE LET baseName == sanitizeFileName(d[n].name)
             uniqueName == NameLoop(baseName, baseName, 1, st.existingNames)
             frameName == FrameWalk(d, n)
         IN  [uniqueImages |->
                  MapSet(st.uniqueImages, ImageKey(imageHash, n),
                         [hash |-> imageHash, name |-> uniqueName,
                          frame |-> frameName]),
              existingNames |-> st.existingNames \cup {uniqueName}]

IsImagePaint(paint) == paint.type = "IMAGE" /\ paint.imageHash # ""

RECURSIVE ProcessPaints(_, _, _, _, _)
\* paints.forEach(processPaint)
ProcessPaints(d, paints, n, st, active) ==
    IF paints = <<>> THEN st
    ELSE ProcessPaints(d, Tail(paints), n,
             IF IsImagePaint(Head(paints))
             THEN addUniqueImage(d, Head(paints).imageHash, n, st, active)
             ELSE st,
             active)

\* the paint list is an array with at least one image paint
HasImagePaint(has, paints) ==
    has /\ \E i \in 1..Len(paints) : IsImagePaint(paints[i])

\* the strokes are not looked at
checkFillsOnly(d, n, st, active) ==
    IF ~active THEN st
    ELSE IF HasImagePaint(d[n].hasFills, d[n].fills)
         THEN ProcessPaints(d, d[n].fills, n, st, active) ELSE st

checkNodeForImages(d, n, st, active) ==
    IF ~active THEN st
    ELSE LET afterFills ==
                 IF HasImagePaint(d[n].hasFills, d[n].fills)
                 THEN ProcessPaints(d, d[n].fills, n, st, active) ELSE st
         IN  IF HasImagePaint(d[n].hasStrokes, d[n].strokes)
             THEN ProcessPaints(d, d[n].strokes, n, afterFills, active)
             ELSE afterFills

---------------------------------------------------------------------------
(* Handler invocations.  One record per scan-images / download-images      *)
(* message; pc is where the invocation stands:                             *)
(*   "scan"        in the while loop of scanImages, holding the thread     *)
(*   "scanYield"   suspended in await yieldToMain() (line 201)             *)
(*   "dlWait"      suspended in the uiReady poll (lines 101-103)           *)
(*   "fetchAwait"  suspended in await Promise.allSettled (line 336)        *)
(*   "fetchJoin"   Promise.allSettled resolved, holding the thread         *)
(*   "fetchYield"  suspended in await yieldToMain() (line 413)             *)
(*   "done"        the handler returned                                    *)
(* sent is what the invocation passed to figma.ui.postMessage and          *)
(* figma.notify, in order.  The last fields are history: cancelSeen and    *)
(* lateBatch, a cancel-operation message was handled while this fetch had  *)
(* batches left, and the fetch began a batch after that; failedHashes,     *)
(* the images whose promise was rejected; startIdx and cancelsAtStart,     *)
(* how many start() and cancel() calls there were when the invocation's    *)
(* own start() returned; visited, the nodes the scan processed, in order;  *)
(* cancelsAtRecv, how many cancel() calls there were when the request of   *)
(* the invocation was received.                                            *)

NewProc(kind) ==
    [kind |-> kind, pc |-> "done", opId |-> 0, sent |-> <<>>,
     \* scanImages
     scanMode |-> "", stack |-> <<>>, uniqueImages |-> <<>>, existingNames |-> {},
     scannedCount |-> 0, totalEstimated |-> 0, lastUpdateTime |-> 0,
     \* fetchImageBytes
     images |-> <<>>, i |-> 0, failedCount |-> 0, items |-> <<>>,
     cancelSeen |-> FALSE, lateBatch |-> FALSE, failedHashes |-> {},
     startIdx |-> 0, cancelsAtStart |-> 0, visited |-> <<>>,
     cancelsAtRecv |-> cancels]

\* figma.ui.postMessage(msg) by the invocation pr
Post(pr, msg) == [pr EXCEPT !.sent = Append(@, msg)]

\* getUserFriendlyError, src/code.ts:464-472 (error.message.includes(..))
getUserFriendlyError(message) ==
    IF message = "No frames selected. Please select frames first."
    THEN "Please select the frames you want to scan, or switch to 'Entire Page' mode."
    ELSE IF message = "Operation cancelled"
    THEN "The operation was manually cancelled."
    ELSE message

\* the catch of figma.ui.onmessage, src/code.ts:117-122: the handler ends
CatchError(pr, message) ==
    [Post(pr, [type |-> "error", message |-> getUserFriendlyError(message)])
        EXCEPT !.pc = "done"]

Store(p, pr) == IF p > Len(procs) THEN Append(procs, pr) ELSE [procs EXCEPT ![p] = pr]

---------------------------------------------------------------------------
(* scanImages, src/code.ts:143-213.                                        *)

RECURSIVE ProcessNodes(_, _, _, _)
\* for (const node of nodesToProcess) { ... }   (lines 181-190)
\* the processing of lines 181-190 without the push of the children
RECURSIVE ProcessNodesNoPush(_, _, _, _)
ProcessNodesNoPush(d, nodes, pr, active) ==
    IF nodes = <<>> THEN pr
    ELSE LET n == Head(nodes)
             st == checkNodeForImages(d, n,
                       [uniqueImages |-> pr.uniqueImages,
                        existingNames |-> pr.existingNames], active)
         IN  ProcessNodesNoPush(d, Tail(nodes),
                 [pr EXCEPT !.scannedCount = @ + 1,
                            !.visited = Append(@, n),
                            !.uniqueImages = st.uniqueImages,
                            !.existingNames = st.existingNames],
                 active)

ProcessNodes(d, nodes, pr, active) ==
    IF nodes = <<>> THEN pr
    ELSE LET n == Head(nodes)
             st == checkNodeForImages(d, n,
                       [uniqueImages |-> pr.uniqueImages,
                        existingNames |-> pr.existingNames], active)
             kids == IF d[n].container THEN children(d, n) ELSE <<>>
         IN  ProcessNodes(d, Tail(nodes),
                 [pr EXCEPT !.scannedCount = @ + 1,
                            !.visited = Append(@, n),
                            !.uniqueImages = st.uniqueImages,
                            !.existingNames = st.existingNames,
                            !.stack = @ \o Reverse(kids),
                            !.totalEstimated = @ + Len(kids)],
                 active)

\* lines 175-190: pop up to SCAN_CHUNK_SIZE nodes, then process them
ScanChunk(d, pr, active) ==
    LET chunkLimit == Min(Len(pr.stack), SCAN_CHUNK_SIZE)
        rest == SubSeq(pr.stack, 1, Len(pr.stack) - chunkLimit)
        nodesToProcess ==
            Reverse(SubSeq(pr.stack, Len(pr.stack) - chunkLimit + 1, Len(pr.stack)))
    IN  ProcessNodes(d, nodesToProcess, [pr EXCEPT !.stack = rest], active)

\* Math.min(95, (scannedCount / totalEstimated) * 100), rounded down
ScanPercent(pr) == Min(95, (pr.scannedCount * 100) \div pr.totalEstimated)

\* lines 144-170 of scanImages, for the invocation pr and the
\* OperationManager m; t2 is the clock reading of line 170.  The result is
\* the invocation as it enters the while loop, or as it ended.
ScanEntry(pr, m, t2) ==
    IF ~isActive(m, pr.opId) THEN [pr EXCEPT !.pc = "done"]
    ELSE LET started == Post(pr, [type |-> "scan-progress",
                                  phase |-> "Starting scan...",
                                  progress |-> 0, current |-> 0, total |-> 100])
             startNodes == IF pr.scanMode = "selected" THEN selection
                           ELSE children(doc, 0)
         IN  IF pr.scanMode = "selected" /\ Len(startNodes) = 0
             THEN CatchError(started, "No frames selected. Please select frames first.")
             ELSE [started EXCEPT !.pc = "scan",
                                  !.stack = startNodes,
                                  !.totalEstimated = Len(startNodes) * 5,
                                  !.lastUpdateTime = t2]

\* the scan-images case (lines 94-97) up to the while loop of scanImages
RecvScanImages(scanMode) ==
    /\ running = 0
    /\ Len(procs) < MaxOps
    /\ \E t \in ClockNext(now) : \E t2 \in ClockNext(t) :
        LET p == Len(procs) + 1
            m == start(currentOperation, t)
            scanOpId == m.id
            pr == ScanEntry([NewProc("scan") EXCEPT !.opId = scanOpId,
                                                    !.scanMode = scanMode,
                                                    !.startIdx = Len(issued) + 1,
                                                    !.cancelsAtStart = cancels],
                            m, t2)
        IN  /\ currentOperation' = m
            /\ issued' = Append(issued, scanOpId)
            /\ cancelSinceStart' = FALSE
            /\ procs' = Append(procs, pr)
            /\ IF pr.pc = "scan"
               THEN now' = t2 /\ running' = p
               ELSE now' = t /\ t2 = t /\ running' = 0
    /\ UNCHANGED <<call, uiReady, foundImages, doc, selection, out, cancels, faults>>

\* scan-complete sent without asking isActive
ScanFinishUnchecked(pr, active) ==
    [Post(pr, [type |-> "scan-complete", images |-> MapValues(pr.uniqueImages)])
        EXCEPT !.pc = "done"]

\* lines 207-212: if (currentOperation.isActive(operationId)) postMessage
ScanFinish(pr, active) ==
    [(IF active
      THEN Post(pr, [type |-> "scan-complete",
                     images |-> MapValues(pr.uniqueImages)])
      ELSE pr) EXCEPT !.pc = "done"]

\* one pass of while (stack.length > 0) { ... } (lines 172-204), or the
\* code after the loop (lines 206-212)
ScanLoop(p) ==
    /\ running = p
    /\ procs[p].pc = "scan"
    /\ LET pr == procs[p]
           active == isActive(currentOperation, pr.opId)
       IN  IF pr.stack = <<>>
           THEN \* lines 206-212
                /\ foundImages' = MapValues(pr.uniqueImages)
                /\ procs' = [procs EXCEPT ![p] = ScanFinish(pr, active)]
                /\ running' = 0
                /\ now' = now
           ELSE IF ~active
           THEN \* line 173
                /\ procs' = [procs EXCEPT ![p].pc = "done"]
                /\ running' = 0
                /\ UNCHANGED <<foundImages, now>>
           ELSE \E t \in ClockNext(now) :
                LET pr2 == ScanChunk(doc, pr, active)
                IN  /\ now' = t
                    /\ foundImages' = foundImages
                    /\ IF t - pr.lastUpdateTime > UPDATE_INTERVAL_MS
                       THEN /\ procs' = [procs EXCEPT ![p] =
                                   [Post(pr2,
                                      [type |-> "scan-progress",
                                       phase |-> <<"Scanning... (", Len(pr2.uniqueImages), " found)">>,
                                       progress |-> ScanPercent(pr2),
                                       current |-> pr2.scannedCount,
                                       total |-> "many"])
                                    EXCEPT !.pc = "scanYield", !.lastUpdateTime = t]]
                            /\ running' = 0
                       ELSE /\ procs' = [procs EXCEPT ![p] = pr2]
                            /\ running' = p
    /\ UNCHANGED <<call, currentOperation, uiReady, doc, selection, out, issued, cancels,
                   cancelSinceStart, faults>>

\* the timer of yieldToMain() fires: the scan goes on at line 202
ScanResume(p) ==
    /\ running = 0
    /\ procs[p].pc = "scanYield"
    /\ procs' = [procs EXCEPT ![p].pc = "scan"]
    /\ running' = p
    /\ UNCHANGED <<call, now, currentOperation, uiReady, foundImages, doc, selection,
                   out, issued, cancels, cancelSinceStart, faults>>

---------------------------------------------------------------------------
(* Image bytes.  A Uint8Array is [absent, length, head]: head holds its    *)
(* first bytes (all of them when there are fewer than four), which is as   *)
(* far as the code ever indexes it.                                        *)

\* detectImageFormat without the length check of line 438
detectNoLengthCheck(bytes) ==
    IF bytes.absent \/ Len(bytes.head) < 2 THEN "bin"
    ELSE IF bytes.head[1] = 137 /\ bytes.head[2] = 80 THEN "PNG"
    ELSE IF bytes.head[1] = 255 /\ bytes.head[2] = 216 THEN "JPG"
    ELSE IF bytes.head[1] = 82 /\ bytes.head[2] = 73 THEN "WEBP"
    ELSE IF bytes.head[1] = 71 /\ bytes.head[2] = 73 THEN "GIF"
    ELSE "bin"

\* detectImageFormat, src/code.ts:437-444
detectImageFormat(bytes) ==
    IF bytes.absent \/ bytes.length < 4 THEN "bin"
    ELSE IF bytes.head[1] = 137 /\ bytes.head[2] = 80 THEN "PNG"   \* 0x89 0x50
    ELSE IF bytes.head[1] = 255 /\ bytes.head[2] = 216 THEN "JPG"  \* 0xff 0xd8
    ELSE IF bytes.head[1] = 82 /\ bytes.head[2] = 73 THEN "WEBP"   \* 0x52 0x49
    ELSE IF bytes.head[1] = 71 /\ bytes.head[2] = 73 THEN "GIF"    \* 0x47 0x49
    ELSE "bin"

\* what img.getBytesAsync() may resolve to: a small PNG, or a JPG over the
\* size ceiling
HostBuffers ==
    {[absent |-> FALSE, length |-> 8, head |-> <<137, 80, 78, 71>>],
     [absent |-> FALSE, length |-> MAX_FILE_SIZE + 1, head |-> <<255, 216, 255, 224>>]}

\* what img.getSizeAsync() may resolve to
HostSizes == {[width |-> 1, height |-> 1]}

\* the images a download-images message may carry: the first n of these
HashNames == <<"H1", "H2", "H3", "H4", "H5", "H6", "H7", "H8">>
ImageList(n) ==
    [k \in 1..n |-> [hash |-> HashNames[k], name |-> Icon \o <<"_">> \o Dec(k),
                     frame |-> Hero]]

---------------------------------------------------------------------------
(* fetchImageBytes, src/code.ts:302-434.  One item of a batch is the       *)
(* async callback of batch.map (lines 337-382):                            *)
(*   pc "size"      suspended in await img.getSizeAsync()                  *)
(*   pc "bytes"     suspended in await img.getBytesAsync()                 *)
(*   pc "delay"     suspended in await delay(delayMs)                      *)
(*   pc "fulfilled" returned value;  pc "rejected" threw reason            *)

NewItem(imgInfo) ==
    [imgInfo |-> imgInfo, pc |-> "size", attempt |-> 1, delayMs |-> 0,
     size |-> [width |-> 0, height |-> 0], value |-> <<>>, reason |-> ""]

\* the catch block without the test of line 366 for the final attempt
ItemCatchNoLimit(it, errorMsg, active) ==
    IF ~active
    THEN [it EXCEPT !.pc = "rejected", !.reason = "Operation cancelled during retry"]
    ELSE [it EXCEPT !.pc = "delay", !.delayMs = RETRY_DELAY_MS * it.attempt]

\* the catch block, lines 362-377
ItemCatch(it, errorMsg, active) ==
    IF it.attempt = MAX_RETRY_ATTEMPTS
    THEN [it EXCEPT !.pc = "rejected", !.reason = "Failed to fetch after attempts"]
    ELSE IF ~active
    THEN [it EXCEPT !.pc = "rejected", !.reason = "Operation cancelled during retry"]
    ELSE [it EXCEPT !.pc = "delay", !.delayMs = RETRY_DELAY_MS * it.attempt]

\* lines 342-345: figma.getImageByHash, then await img.getSizeAsync()
ItemAttempt(it, found, active) ==
    IF ~found THEN ItemCatch(it, "Image not found in Figma document.", active)
    ELSE [it EXCEPT !.pc = "size"]

\* lines 346-360, once getBytesAsync resolved with bytes
ItemGotBytes(it, bytes, active) ==
    IF bytes.length > MAX_FILE_SIZE THEN ItemCatch(it, "Image too large", active)
    ELSE [it EXCEPT !.pc = "fulfilled",
                    !.value = [hash |-> it.imgInfo.hash, name |-> it.imgInfo.name,
                               frame |-> it.imgInfo.frame, bytes |-> bytes,
                               format |-> detectImageFormat(bytes),
                               size |-> bytes.length,
                               width |-> it.size.width, height |-> it.size.height]]

Settled(it) == it.pc \in {"fulfilled", "rejected"}
AllSettled(items) == \A k \in 1..Len(items) : Settled(items[k])

RECURSIVE FulfilledUntilRejected(_)
\* the values up to the first rejected result: a join that gives up at
\* the first failure
FulfilledUntilRejected(items) ==
    IF items = <<>> \/ Head(items).pc # "fulfilled" THEN <<>>
    ELSE <<Head(items).value>> \o FulfilledUntilRejected(Tail(items))

RECURSIVE Fulfilled(_)
\* results.forEach: the values of the fulfilled results, in order
Fulfilled(items) ==
    IF items = <<>> THEN <<>>
    ELSE IF Head(items).pc = "fulfilled"
         THEN <<Head(items).value>> \o Fulfilled(Tail(items))
         ELSE Fulfilled(Tail(items))

\* i++ instead of i += CONFIG.BATCH_SIZE
NextIndex(i) == i + 1

\* i += CONFIG.BATCH_SIZE (line 329)
NextBatchIndex(i) == i + BATCH_SIZE

\* the code after the loop with download-finish posted before the final
\* progress message
FetchEndFinishFirst(pr, active) ==
    LET warned == IF pr.failedCount > 0
                  THEN Post(pr, [type |-> "notify", failedCount |-> pr.failedCount,
                                 maxMB |-> MAX_FILE_SIZE \div (1024 * 1024)])
                  ELSE pr
    IN  [(IF active
          THEN Post(Post(warned, [type |-> "download-finish"]),
                    [type |-> "download-progress",
                     phase |-> "Sending data to UI...",
                     progress |-> 100,
                     current |-> Len(pr.images) - pr.failedCount,
                     total |-> Len(pr.images), eta |-> "Done"])
          ELSE warned) EXCEPT !.pc = "done"]

\* the code after the loop without the figma.notify of lines 416-418
FetchEndSilent(pr, active) ==
    [(IF active
      THEN Post(Post(pr,
                [type |-> "download-progress",
                 phase |-> "Sending data to UI...",
                 progress |-> 100,
                 current |-> Len(pr.images) - pr.failedCount,
                 total |-> Len(pr.images), eta |-> "Done"]),
                [type |-> "download-finish"])
      ELSE pr) EXCEPT !.pc = "done"]

\* lines 416-433: after the loop
FetchEnd(pr, active) ==
    LET total == Len(pr.images)
        warned == IF pr.failedCount > 0
                  THEN Post(pr, [type |-> "notify", failedCount |-> pr.failedCount,
                                 maxMB |-> MAX_FILE_SIZE \div (1024 * 1024)])
                  ELSE pr
        finished == IF active
                    THEN Post(Post(warned,
                              [type |-> "download-progress",
                               phase |-> "Sending data to UI...",
                               progress |-> 100,
                               current |-> total - pr.failedCount,
                               total |-> total, eta |-> "Done"]),
                              [type |-> "download-finish"])
                    ELSE warned
    IN  [finished EXCEPT !.pc = "done"]

\* lines 333-383: the batch starting at i; the images of the set missing
\* are not found by figma.getImageByHash
BatchStart(pr, missing, active) ==
    LET batch == SubSeq(pr.images, pr.i + 1, Min(pr.i + BATCH_SIZE, Len(pr.images)))
    IN  [pr EXCEPT !.pc = "fetchAwait",
                   !.lateBatch = @ \/ pr.cancelSeen,
                   !.items = [k \in 1..Len(batch) |->
                                 ItemAttempt(NewItem(batch[k]), k \notin missing, active)]]

\* The head of for (let i = 0; i < total; i += BATCH_SIZE) (lines 329-331),
\* then the batch or the code after the loop.  pr is the invocation, m the
\* OperationManager.
BatchHead(p, pr, m) ==
    LET total == Len(pr.images)
        active == isActive(m, pr.opId)
    IN  IF pr.i < total /\ active
        THEN \E missing \in SUBSET (1..Min(BATCH_SIZE, total - pr.i)) :
                 /\ Cardinality(missing) <= faults
                 /\ faults' = faults - Cardinality(missing)
                 /\ procs' = Store(p, BatchStart(pr, missing, active))
        ELSE /\ faults' = faults
             /\ procs' = Store(p, IF pr.i < total
                                  THEN CatchError(pr, "Operation cancelled")
                                  ELSE FetchEnd(pr, active))

\* start() and lines 307-327 of fetchImageBytes, then the first pass of
\* the loop
FetchEntry(p, pr0) ==
    \E t \in ClockNext(now) :
        LET m == start(currentOperation, t)
            dlOpId == m.id
            pr == [pr0 EXCEPT !.opId = dlOpId, !.i = 0, !.failedCount = 0,
                              !.startIdx = Len(issued) + 1,
                              !.cancelsAtStart = cancels]
            total == Len(pr.images)
        IN  /\ now' = t
            /\ currentOperation' = m
            /\ issued' = Append(issued, dlOpId)
            /\ cancelSinceStart' = FALSE
            /\ running' = 0
            /\ IF ~isActive(m, dlOpId)
               THEN /\ procs' = Store(p, [pr EXCEPT !.pc = "done"])
                    /\ faults' = faults
               ELSE BatchHead(p,
                        Post(Post(pr,
                             [type |-> "download-progress", phase |-> "Preparing...",
                              progress |-> 0, current |-> 0, total |-> total]),
                             [type |-> "download-start", downloadType |-> "original",
                              formats |-> <<"PNG">>, renamePattern |-> "",
                              totalImages |-> total]),
                        m)

\* the download-images case, lines 99-107
RecvDownloadImages(n) ==
    /\ running = 0
    /\ Len(procs) < MaxOps
    /\ LET p == Len(procs) + 1
           pr == [NewProc("download") EXCEPT !.images = ImageList(n)]
       IN  IF uiReady
           THEN FetchEntry(p, pr)
           ELSE /\ procs' = Append(procs, [pr EXCEPT !.pc = "dlWait"])
                /\ UNCHANGED <<now, currentOperation, issued, cancelSinceStart,
                               running, faults>>
    /\ UNCHANGED <<call, uiReady, foundImages, doc, selection, out, cancels>>

\* the 10 ms timer of the wait loop fires and uiReady is set
DlPoll(p) ==
    /\ running = 0
    /\ procs[p].pc = "dlWait"
    /\ uiReady
    /\ FetchEntry(p, procs[p])
    /\ UNCHANGED <<call, uiReady, foundImages, doc, selection, out, cancels>>

\* an item's step ended with the item it, in invocation p: when it was the
\* last to settle, Promise.allSettled resolves and the invocation goes on
\* in the same task
ItemStep(p, k, it) ==
    LET items == [procs[p].items EXCEPT ![k] = it]
    IN  /\ procs' = [procs EXCEPT ![p].items = items,
                                  ![p].pc = IF AllSettled(items) THEN "fetchJoin"
                                            ELSE "fetchAwait"]
        /\ running' = IF AllSettled(items) THEN p ELSE 0

\* img.getSizeAsync() settles
ItemSize(p, k) ==
    /\ running = 0
    /\ procs[p].pc = "fetchAwait"
    /\ k \in 1..Len(procs[p].items)
    /\ procs[p].items[k].pc = "size"
    /\ LET it == procs[p].items[k]
           active == isActive(currentOperation, procs[p].opId)
       IN  \/ \E sz \in HostSizes :
                 /\ ItemStep(p, k, [it EXCEPT !.pc = "bytes", !.size = sz])
                 /\ faults' = faults
           \/ /\ faults > 0
              /\ faults' = faults - 1
              /\ ItemStep(p, k, ItemCatch(it, "getSizeAsync rejected", active))
    /\ UNCHANGED <<call, now, currentOperation, uiReady, foundImages, doc, selection,
                   out, issued, cancels, cancelSinceStart>>

\* img.getBytesAsync() settles
ItemBytes(p, k) ==
    /\ running = 0
    /\ procs[p].pc = "fetchAwait"
    /\ k \in 1..Len(procs[p].items)
    /\ procs[p].items[k].pc = "bytes"
    /\ LET it == procs[p].items[k]
           active == isActive(currentOperation, procs[p].opId)
       IN  \/ \E bytes \in HostBuffers :
                 /\ bytes.length > MAX_FILE_SIZE => faults > 0
                 /\ faults' = IF bytes.length > MAX_FILE_SIZE THEN faults - 1 ELSE faults
                 /\ ItemStep(p, k, ItemGotBytes(it, bytes, active))
           \/ /\ faults > 0
              /\ faults' = faults - 1
              /\ ItemStep(p, k, ItemCatch(it, "getBytesAsync rejected", active))
    /\ UNCHANGED <<call, now, currentOperation, uiReady, foundImages, doc, selection,
                   out, issued, cancels, cancelSinceStart>>

\* the timer of delay(RETRY_DELAY_MS * attempt) fires: the next attempt
ItemDelay(p, k) ==
    /\ running = 0
    /\ procs[p].pc = "fetchAwait"
    /\ k \in 1..Len(procs[p].items)
    /\ procs[p].items[k].pc = "delay"
    /\ LET it == [procs[p].items[k] EXCEPT !.attempt = @ + 1]
           active == isActive(currentOperation, procs[p].opId)
       IN  \E found \in BOOLEAN :
               /\ ~found => faults > 0
               /\ faults' = IF found THEN faults ELSE faults - 1
               /\ ItemStep(p, k, ItemAttempt(it, found, active))
    /\ UNCHANGED <<call, now, currentOperation, uiReady, foundImages, doc, selection,
                   out, issued, cancels, cancelSinceStart>>

\* lines 385-413, after Promise.allSettled resolved
FetchJoin(p) ==
    /\ running = p
    /\ procs[p].pc = "fetchJoin"
    /\ LET pr == procs[p]
           total == Len(pr.images)
           fetchedBatch == Fulfilled(pr.items)
           failedCount == pr.failedCount + (Len(pr.items) - Len(fetchedBatch))
           processed == Min(pr.i + BATCH_SIZE, total)
           ready == IF Len(fetchedBatch) > 0
                    THEN Post(pr, [type |-> "images-batch-ready",
                                   images |-> fetchedBatch])
                    ELSE pr
       IN  procs' = [procs EXCEPT ![p] =
               [Post(ready, [type |-> "download-progress",
                             phase |-> "Fetching image data...",
                             progress |-> (processed * 100) \div total,
                             current |-> processed, total |-> total])
                EXCEPT !.pc = "fetchYield",
                       !.failedCount = failedCount,
                       !.failedHashes = @ \cup
                           {pr.items[k].imgInfo.hash :
                               k \in {j \in 1..Len(pr.items) :
                                          pr.items[j].pc = "rejected"}},
                       !.items = <<>>,
                       !.i = NextBatchIndex(pr.i)]]
    /\ running' = 0
    /\ UNCHANGED <<call, now, currentOperation, uiReady, foundImages, doc, selection,
                   out, issued, cancels, cancelSinceStart, faults>>

\* the timer of yieldToMain() fires: the loop goes on at its head
FetchResume(p) ==
    /\ running = 0
    /\ procs[p].pc = "fetchYield"
    /\ BatchHead(p, procs[p], currentOperation)
    /\ running' = 0
    /\ UNCHANGED <<call, now, currentOperation, uiReady, foundImages, doc, selection,
                   out, issued, cancels, cancelSinceStart>>

---------------------------------------------------------------------------
(* The other messages and events, src/code.ts:75-128.                      *)

\* msg.type === "ui-ready"
RecvUiReady ==
    /\ running = 0
    /\ uiReady' = TRUE
    /\ UNCHANGED <<call, now, currentOperation, foundImages, doc, selection, procs,
                   running, out, issued, cancels, cancelSinceStart, faults>>

\* a fetch that has a batch still to begin
BatchesLeft(pr) ==
    \/ pr.pc = "fetchAwait" /\ pr.i + BATCH_SIZE < Len(pr.images)
    \/ pr.pc = "fetchYield" /\ pr.i < Len(pr.images)

\* case "cancel-operation"
RecvCancelOperation ==
    /\ running = 0
    /\ cancels < MaxCancels
    /\ cancels' = cancels + 1
    /\ cancelSinceStart' = TRUE
    /\ currentOperation' = cancel(currentOperation)
    /\ out' = Append(out, [type |-> "operation-cancelled"])
    /\ procs' = [p \in 1..Len(procs) |->
                    [procs[p] EXCEPT !.cancelSeen = @ \/ BatchesLeft(procs[p])]]
    /\ UNCHANGED <<call, now, uiReady, foundImages, doc, selection, running,
                   issued, faults>>

\* figma.on("close", () => currentOperation.cancel()): the host then ends
\* the plugin, and nothing runs any more (running = -1)
Close ==
    /\ running = 0
    /\ cancels' = cancels + 1
    /\ cancelSinceStart' = TRUE
    /\ currentOperation' = cancel(currentOperation)
    /\ running' = -1
    /\ UNCHANGED <<call, now, uiReady, foundImages, doc, selection, procs,
                   out, issued, faults>>

---------------------------------------------------------------------------
(* The plugin: any messages, in any order, on a small document.            *)

\* frame Hero > group g > rectangle Icon with image fill H1
HeroDoc == <<MkNode(1, 0), MkNode(2, 1), MkNode(3, 2)>>

\* frame Hero > (group g > rectangle Icon, rectangle Icon_1): a node with a
\* child, followed by a sibling
BranchDoc == <<MkNode(1, 0), MkNode(2, 1), MkNode(5, 1), MkNode(3, 2)>>

InitCommon ==
    /\ now = 1
    /\ currentOperation = OperationManager
    /\ foundImages = <<>>
    /\ procs = <<>>
    /\ running = 0
    /\ out = <<>>
    /\ issued = <<>>
    /\ cancels = 0
    /\ cancelSinceStart = FALSE


Init ==
    /\ InitCommon
    /\ uiReady = FALSE
    /\ doc = HeroDoc
    /\ selection = <<>>
    /\ faults = MaxFaults
    /\ call = NoCall

Next ==
    \/ RecvUiReady
    \/ \E scanMode \in {"entire", "selected"} : RecvScanImages(scanMode)
    \/ \E n \in 0..MaxImages : RecvDownloadImages(n)
    \/ RecvCancelOperation
    \/ Close
    \/ \E p \in 1..Len(procs) : DlPoll(p)
    \/ \E p \in 1..Len(procs) : ScanLoop(p)
    \/ \E p \in 1..Len(procs) : ScanResume(p)
    \/ \E p \in 1..Len(procs) : \E k \in 1..BATCH_SIZE : ItemSize(p, k)
    \/ \E p \in 1..Len(procs) : \E k \in 1..BATCH_SIZE : ItemBytes(p, k)
    \/ \E p \in 1..Len(procs) : \E k \in 1..BATCH_SIZE : ItemDelay(p, k)
    \/ \E p \in 1..Len(procs) : FetchJoin(p)
    \/ \E p \in 1..Len(procs) : FetchResume(p)

Spec == Init /\ [][Next]_vars

---------------------------------------------------------------------------
(* The scan alone: one scan-images request on any generated document.      *)

SelectionsOf(d) == {<<>>} \cup {<<n>> : n \in 1..Len(d)}

InitScan ==
    /\ InitCommon
    /\ uiReady = TRUE
    /\ doc \in Docs \cup {BranchDoc}
    /\ selection \in SelectionsOf(doc)
    /\ faults = 0
    /\ call = NoCall

NextScan ==
    \/ \E scanMode \in {"entire", "selected"} :
           Len(procs) = 0 /\ RecvScanImages(scanMode)
    \/ \E p \in 1..Len(procs) : ScanLoop(p)
    \/ \E p \in 1..Len(procs) : ScanResume(p)

SpecScan == InitScan /\ [][NextScan]_vars

---------------------------------------------------------------------------
(* One fetch alone: one download-images request, its host calls failing    *)
(* or not, and cancel-operation messages.                                  *)

InitFetch ==
    /\ InitCommon
    /\ uiReady = TRUE
    /\ doc = <<>>
    /\ selection = <<>>
    /\ faults = MaxFetchFaults
    /\ call = NoCall

NextFetch ==
    \/ \E n \in 0..MaxImages : Len(procs) = 0 /\ RecvDownloadImages(n)
    \/ RecvCancelOperation
    \/ \E p \in 1..Len(procs) : \E k \in 1..BATCH_SIZE : ItemSize(p, k)
    \/ \E p \in 1..Len(procs) : \E k \in 1..BATCH_SIZE : ItemBytes(p, k)
    \/ \E p \in 1..Len(procs) : \E k \in 1..BATCH_SIZE : ItemDelay(p, k)
    \/ \E p \in 1..Len(procs) : FetchJoin(p)
    \/ \E p \in 1..Len(procs) : FetchResume(p)

SpecFetch == InitFetch /\ [][NextFetch]_vars

---------------------------------------------------------------------------
(* The helper functions alone: sanitizeFileName and detectImageFormat      *)
(* called on any argument of a bounded set.                                *)

\* every sequence over chars of length up to n
StringsUpTo(chars, n) == UNION {[1..k -> chars] : k \in 0..n}

\* an ordinary character, white space, an illegal character, a control
\* character
NameChars == {"a", " ", ":", "\t"}

\* k ordinary characters
Pad(k) == [i \in 1..k |-> "a"]

\* node names: the short ones, and long ones around the length at which
\* sanitizeFileName cuts
NameInputs ==
    StringsUpTo(NameChars, MaxNameLen)
    \cup {Pad(k) \o t : k \in (FILE_NAME_MAX - 2)..(FILE_NAME_MAX + 1),
                        t \in StringsUpTo(NameChars, MaxTailLen)}

\* the bytes the signatures are made of, and one that is in none
SigBytes == {137, 80, 255, 216, 82, 73, 71, 0}
TailBytes == {0, 137}

\* byte buffers: no buffer at all, and every buffer of up to MaxBufLen
\* bytes; head is the first four bytes, or all when there are fewer
BufferInputs ==
    {[absent |-> TRUE, length |-> 0, head |-> <<>>]}
    \cup UNION {{[absent |-> FALSE, length |-> n, head |-> h] :
                    h \in {g \in [1..Min(n, 4) -> SigBytes \cup TailBytes] :
                              \A i \in 3..Min(n, 4) : g[i] \in TailBytes}} :
                n \in 0..MaxBufLen}

InitHelpers ==
    /\ InitCommon
    /\ uiReady = FALSE
    /\ doc = <<>>
    /\ selection = <<>>
    /\ faults = 0
    /\ call \in {[fn |-> "sanitizeFileName", arg |-> x, ret |-> <<>>] :
                    x \in NameInputs}
           \cup {[fn |-> "detectImageFormat", arg |-> b, ret |-> <<>>] :
                    b \in BufferInputs}

\* sanitizeFileName(name)
CallSanitize ==
    /\ call.fn = "sanitizeFileName"
    /\ call.ret = <<>>
    /\ call' = [call EXCEPT !.ret = <<sanitizeFileName(call.arg)>>]
    /\ UNCHANGED progVars

\* sanitizeFileName applied to what it returned
CallSanitizeAgain ==
    /\ call.fn = "sanitizeFileName"
    /\ Len(call.ret) = 1
    /\ call' = [call EXCEPT !.ret = Append(@, sanitizeFileName(call.ret[1]))]
    /\ UNCHANGED progVars

\* detectImageFormat(bytes)
CallDetect ==
    /\ call.fn = "detectImageFormat"
    /\ call.ret = <<>>
    /\ call' = [call EXCEPT !.ret = <<detectImageFormat(call.arg)>>]
    /\ UNCHANGED progVars

NextHelpers ==
    \/ CallSanitize
    \/ CallSanitizeAgain
    \/ CallDetect

SpecHelpers == InitHelpers /\ [][NextHelpers]_vars

---------------------------------------------------------------------------
(* Properties.                                                             *)

Procs == 1..Len(procs)

\* the invocation holds a token and has not returned
InFlight(p) ==
    procs[p].pc \in {"scan", "scanYield", "fetchAwait", "fetchJoin", "fetchYield"}

\* the messages of the given types that invocation p sent
SentOf(p, types) == SelectSeq(procs[p].sent, LAMBDA e : e.type \in types)

\* C1 (as claimed): once a later start() has returned, isActive is false
\* for every token an earlier start() returned, and at most one scan or
\* fetch in flight sees its own token active.
C1_OneActiveToken ==
    /\ \A k \in 1..(Len(issued) - 1) : ~isActive(currentOperation, issued[k])
    /\ Cardinality({p \in Procs :
           InFlight(p) /\ isActive(currentOperation, procs[p].opId)}) <= 1

\* the token the last start() returned (the initial id before any start)
CurrentToken == IF issued = <<>> THEN OperationManager.id ELSE issued[Len(issued)]

\* C2: isActive(t) is true iff t is the current token and no cancel() has
\* been recorded since the last start(); cancel() leaves the id as it was,
\* start() clears the flag and makes the token it returns current.
C2_IsActiveIff ==
    /\ currentOperation.id = CurrentToken
    /\ currentOperation.cancelled = cancelSinceStart
    /\ \A t \in Range(issued) \cup {0, now, now + 1} :
           isActive(currentOperation, t) <=> (t = CurrentToken /\ ~cancelSinceStart)

\* C2 witness: a start() after a cancel(): the flag is cleared again and
\* the new token is active
C2_Witness ==
    /\ Len(issued) >= 2
    /\ cancels >= 1
    /\ ~cancelSinceStart
    /\ isActive(currentOperation, CurrentToken)

NoSelectionMessage ==
    "Please select the frames you want to scan, or switch to 'Entire Page' mode."

CancelledMessage == "The operation was manually cancelled."

\* C3 (as claimed): a selection-only scan of an empty selection sends
\* exactly one error message, the one asking to select frames, and no
\* scan-progress and no scan-complete message.
C3_NoSelectionOnlyError ==
    \A p \in Procs :
        (procs[p].kind = "scan" /\ procs[p].scanMode = "selected" /\ selection = <<>>)
        => /\ SentOf(p, {"scan-progress", "scan-complete"}) = <<>>
           /\ procs[p].pc = "done"
              => SentOf(p, {"error"}) = <<[type |-> "error", message |-> NoSelectionMessage]>>

\* the content hashes of a list of discovered images
Hashes(imgs) == [k \in 1..Len(imgs) |-> imgs[k].hash]
Names(imgs) == [k \in 1..Len(imgs) |-> imgs[k].name]

NoRepeat(s) == \A a, b \in 1..Len(s) : a # b => s[a] # s[b]

\* the lists of images invocation p sent in scan-complete messages
Completed(p) ==
    LET evs == SentOf(p, {"scan-complete"})
    IN  {evs[k].images : k \in 1..Len(evs)}

\* the image paints of node n: the paints of its fills and strokes arrays
\* that are of type IMAGE and carry a hash
ImagePaints(d, n) ==
    {d[n].fills[k] : k \in {k \in 1..Len(d[n].fills) :
                               d[n].hasFills /\ IsImagePaint(d[n].fills[k])}}
    \cup
    {d[n].strokes[k] : k \in {k \in 1..Len(d[n].strokes) :
                                 d[n].hasStrokes /\ IsImagePaint(d[n].strokes[k])}}

\* the number of image paints of the document that reference hash h
RefCount(d, h) ==
    Cardinality({<<n, c, k>> \in (1..Len(d)) \X {"fills", "strokes"} \X (1..3) :
        LET paints == IF c = "fills" THEN d[n].fills ELSE d[n].strokes
            has == IF c = "fills" THEN d[n].hasFills ELSE d[n].hasStrokes
        IN  has /\ k <= Len(paints) /\ IsImagePaint(paints[k])
                /\ paints[k].imageHash = h})

\* C4: at every point of a scan the working map, and every list sent in
\* scan-complete, holds no two entries with the same content hash.
C4_UniqueHashes ==
    \A p \in Procs :
        /\ NoRepeat(Hashes(MapValues(procs[p].uniqueImages)))
        /\ \A imgs \in Completed(p) : NoRepeat(Hashes(imgs))

\* C4 witness: a scan completed on a document in which one hash is
\* referenced by several paints
C4_Witness ==
    \E p \in Procs : \E imgs \in Completed(p) : \E k \in 1..Len(imgs) :
        RefCount(doc, imgs[k].hash) >= 2

\* base_k
Suffixed(base, k) == base \o <<"_">> \o Dec(k)

\* the name entry j of the list imgs must carry, given the names of the
\* entries before it: the sanitized name of a node that references its
\* hash when that name is free, else that name with the smallest suffix
\* _k, k >= 1, that is free
NameRuleAt(d, imgs, j) ==
    LET taken == {imgs[k].name : k \in 1..(j - 1)}
    IN  \E n \in 1..Len(d) :
            /\ \E paint \in ImagePaints(d, n) : paint.imageHash = imgs[j].hash
            /\ LET base == sanitizeFileName(d[n].name)
               IN  \/ base \notin taken /\ imgs[j].name = base
                   \/ /\ base \in taken
                      /\ \E k \in 1..(Len(imgs) + 1) :
                            /\ imgs[j].name = Suffixed(base, k)
                            /\ Suffixed(base, k) \notin taken
                            /\ \A k2 \in 1..(k - 1) : Suffixed(base, k2) \in taken

\* C5: the names of one result set are pairwise distinct, and a name that
\* is taken is resolved by the smallest free suffix _k, k >= 1, in the
\* order the images are first seen.
C5_UniqueNames ==
    \A p \in Procs :
        LET imgs == MapValues(procs[p].uniqueImages)
        IN  /\ NoRepeat(Names(imgs))
            /\ procs[p].existingNames = Range(Names(imgs))
            /\ \A j \in 1..Len(imgs) : NameRuleAt(doc, imgs, j)
            /\ \A done \in Completed(p) : NoRepeat(Names(done))

\* C5 witness: a completed scan in which Icon, the native Icon_1 and the
\* resolved Icon_2 all occur
C5_Witness ==
    \E p \in Procs : \E imgs \in Completed(p) :
        {Icon, Suffixed(Icon, 1), Suffixed(Icon, 2)} \subseteq Range(Names(imgs))

\* the nodes a scan in the given mode starts from
StartNodes(scanMode) == IF scanMode = "selected" THEN selection ELSE children(doc, 0)

\* the hashes referenced by an image paint of a node reachable from roots
ReachableHashes(d, roots) ==
    {paint.imageHash : paint \in UNION {ImagePaints(d, n) : n \in Descendants(d, roots)}}

CancelOutcome == [type |-> "error", message |-> CancelledMessage]

\* C7 (as claimed): when a cancel-operation message is handled while a
\* fetch has batches left, operation-cancelled is sent, the fetch begins
\* no later batch (so no host fetch of any of its items), and it ends at
\* its next batch boundary with the cancellation outcome.
C7_CancelStopsFetch ==
    \A p \in Procs :
        procs[p].cancelSeen
        => /\ [type |-> "operation-cancelled"] \in Range(out)
           /\ ~procs[p].lateBatch
           /\ procs[p].pc \in {"fetchAwait", "fetchJoin", "fetchYield", "done"}
           /\ procs[p].pc = "done"
              => procs[p].sent[Len(procs[p].sent)] = CancelOutcome

\* no two calls of start() returned the same token
TokensDistinct == \A a, b \in 1..Len(issued) : a # b => issued[a] # issued[b]

\* C7 holds in every run in which the tokens are distinct
C7_WhenTokensDistinct == TokensDistinct => C7_CancelStopsFetch

\* C8 (as claimed): no cancel request and no superseding operation makes
\* a scan or a fetch send a message of type error.
C8_CancelIsNoError ==
    \A p \in Procs : \A k \in 1..Len(procs[p].sent) :
        procs[p].sent[k].type = "error"
        => procs[p].sent[k].message # CancelledMessage

\* C9 (as claimed): nothing a scan-images or download-images request
\* triggers is sent before ui-ready was received.
C9_NothingBeforeUiReady ==
    ~uiReady => \A p \in Procs : procs[p].sent = <<>>

\* the last message of a non-empty sequence
Last(s) == s[Len(s)]

\* C10: a fetch of n images that is never cancelled and in which every
\* item succeeds sends exactly ceil(n / BATCH_SIZE) images-batch-ready
\* messages and as many "Fetching image data..." progress messages, and
\* its final progress message has current = total = n.
C10_BatchCycles ==
    \A p \in Procs :
        (procs[p].kind = "download" /\ procs[p].pc = "done"
           /\ cancels = 0 /\ procs[p].failedCount = 0)
        => LET n == Len(procs[p].images)
               progress == SentOf(p, {"download-progress"})
               fetching == SelectSeq(progress,
                               LAMBDA e : e.phase = "Fetching image data...")
           IN  /\ Len(SentOf(p, {"images-batch-ready"})) = CeilDiv(n, BATCH_SIZE)
               /\ Len(fetching) = CeilDiv(n, BATCH_SIZE)
               /\ Last(progress).current = n
               /\ Last(progress).total = n
               /\ Last(procs[p].sent) = [type |-> "download-finish"]

\* C10 witness: such a fetch of more than one batch has ended, one of its
\* items having needed a second attempt
C10_Witness ==
    \E p \in Procs :
        /\ procs[p].kind = "download" /\ procs[p].pc = "done"
        /\ cancels = 0 /\ procs[p].failedCount = 0
        /\ Len(procs[p].images) > BATCH_SIZE
        /\ faults < MaxFetchFaults
        /\ Len(SentOf(p, {"images-batch-ready"})) = 2


\* the hashes of the images invocation p sent in images-batch-ready messages
Delivered(p) ==
    LET evs == SentOf(p, {"images-batch-ready"})
    IN  UNION {{evs[k].images[j].hash : j \in 1..Len(evs[k].images)} :
                  k \in 1..Len(evs)}

\* C11: in a fetch that is never cancelled, an image whose attempts all
\* failed is in no images-batch-ready message, failedCount is the number
\* of such images, no error message is sent for them, and the fetch ends
\* with download-finish, after exactly one warning iff failedCount >= 1.
C11_FailedItemsSummarised ==
    \A p \in Procs :
        (procs[p].kind = "download" /\ cancels = 0)
        => /\ Delivered(p) \cap procs[p].failedHashes = {}
           /\ procs[p].failedCount = Cardinality(procs[p].failedHashes)
           /\ SentOf(p, {"error"}) = <<>>
           /\ procs[p].pc # "done" => SentOf(p, {"notify"}) = <<>>
           /\ procs[p].pc = "done"
              => /\ Delivered(p) \cup procs[p].failedHashes
                      = Range(Hashes(procs[p].images))
                 /\ SentOf(p, {"notify"})
                      = IF procs[p].failedCount >= 1
                        THEN <<[type |-> "notify",
                                failedCount |-> procs[p].failedCount,
                                maxMB |-> 100]>>
                        ELSE <<>>
                 /\ Last(procs[p].sent) = [type |-> "download-finish"]

\* C11 witness: a fetch of several images ended, never cancelled, one of
\* its images having failed three times and another having been delivered
C11_Witness ==
    \E p \in Procs :
        /\ procs[p].kind = "download" /\ procs[p].pc = "done" /\ cancels = 0
        /\ procs[p].failedCount = 1
        /\ Delivered(p) # {}
        /\ Len(SentOf(p, {"notify"})) = 1

\* C12 (as claimed): sanitizeFileName applied to its own result returns
\* that result, for every name, the long ones included.
C12_SanitizeIdempotent ==
    (call.fn = "sanitizeFileName" /\ Len(call.ret) = 2)
    => call.ret[2] = call.ret[1]

\* the same for the names that sanitizeFileName does not cut
SanitizeIdempotentUncut ==
    (call.fn = "sanitizeFileName" /\ Len(call.ret) = 2
       /\ Len(Trim(ReplaceIllegal(call.arg))) <= FILE_NAME_MAX)
    => call.ret[2] = call.ret[1]

\* the label detectImageFormat gives to what it does not recognise
UNKNOWN == "bin"

\* the two-byte prefixes detectImageFormat knows
Signatures ==
    {[prefix |-> <<137, 80>>, label |-> "PNG"],
     [prefix |-> <<255, 216>>, label |-> "JPG"],
     [prefix |-> <<82, 73>>, label |-> "WEBP"],
     [prefix |-> <<71, 73>>, label |-> "GIF"]}

\* the first two bytes of a buffer (fewer when it is shorter)
FirstTwo(b) == SubSeq(b.head, 1, Min(Len(b.head), 2))

\* C13: detectImageFormat gives every buffer, the absent, empty and short
\* ones included, exactly one label of PNG, JPG, WEBP, GIF, UNKNOWN; a
\* buffer of fewer than 4 bytes or without a known two-byte prefix gets
\* UNKNOWN, a longer one with a known prefix gets that prefix's label, and
\* the label depends on the length and the first two bytes only.
C13_DetectTotal ==
    (call.fn = "detectImageFormat" /\ call.ret # <<>>)
    => LET b == call.arg
           r == call.ret[1]
           short == b.absent \/ b.length < 4
       IN  /\ r \in {"PNG", "JPG", "WEBP", "GIF", UNKNOWN}
           /\ (short \/ \A s \in Signatures : FirstTwo(b) # s.prefix)
              => r = UNKNOWN
           /\ \A s \in Signatures :
                 (~short /\ FirstTwo(b) = s.prefix) => r = s.label
           /\ \A c \in BufferInputs :
                 (c.absent = b.absent /\ c.length = b.length
                    /\ FirstTwo(c) = FirstTwo(b))
                 => detectImageFormat(c) = r

\* C13 witness: a buffer of three bytes that begins like a PNG got UNKNOWN
C13_Witness ==
    /\ call.fn = "detectImageFormat"
    /\ call.ret = <<UNKNOWN>>
    /\ ~call.arg.absent
    /\ call.arg.length = 3
    /\ FirstTwo(call.arg) = <<137, 80>>

RECURSIVE Ancestors(_, _)
\* the ancestors of node n below the page, the nearest first
Ancestors(d, n) ==
    IF d[n].parent = 0 THEN <<>>
    ELSE <<d[n].parent>> \o Ancestors(d, d[n].parent)

RECURSIVE NearestNamed(_, _, _)
\* the sanitized name of the first node of chain whose type is in kinds,
\* the page-level default when there is none
NearestNamed(d, chain, kinds) ==
    IF chain = <<>> THEN <<"P", "a", "g", "e">>
    ELSE IF d[Head(chain)].type \in kinds
         THEN sanitizeFileName(d[Head(chain)].name)
         ELSE NearestNamed(d, Tail(chain), kinds)

\* every discovered image carries as frame the name NearestNamed gives for
\* a node that references it; the chain searched is the node's ancestors,
\* after the node itself when fromNode
FrameIsNearest(fromNode, kinds) ==
    \A p \in Procs :
        LET imgs == MapValues(procs[p].uniqueImages)
        IN  \A j \in 1..Len(imgs) :
                \E n \in 1..Len(doc) :
                    /\ \E paint \in ImagePaints(doc, n) :
                           paint.imageHash = imgs[j].hash
                    /\ imgs[j].frame =
                         NearestNamed(doc,
                             (IF fromNode THEN <<n>> ELSE <<>>) \o Ancestors(doc, n),
                             kinds)

\* C14 (as claimed): the frame of every discovered image is the sanitized
\* name of the nearest ancestor of the referencing node that is a frame,
\* a component or a component set, and the page-level default when there
\* is none.
C14_ContainerName == FrameIsNearest(FALSE, {"FRAME", "COMPONENT", "COMPONENT_SET"})

\* the ancestors only, instances counted as containers too
ContainerNameWithInstance ==
    FrameIsNearest(FALSE, {"FRAME", "COMPONENT", "COMPONENT_SET", "INSTANCE"})

\* the node itself first, instances not counted
ContainerNameFromNode == FrameIsNearest(TRUE, {"FRAME", "COMPONENT", "COMPONENT_SET"})

\* the node itself first and instances counted: what the scan computes
ContainerNameAsCoded ==
    FrameIsNearest(TRUE, {"FRAME", "COMPONENT", "COMPONENT_SET", "INSTANCE"})

\* since the start() of invocation p returned, cancel() or start() was
\* called again
TokenLost(p) ==
    \/ cancels > procs[p].cancelsAtStart
    \/ Len(issued) > procs[p].startIdx

\* in this step invocation p sends a message of one of the types
Sends(p, types) ==
    \E k \in (Len(procs[p].sent) + 1)..Len(procs'[p].sent) :
        procs'[p].sent[k].type \in types

\* C15: a scan whose token was cancelled or superseded before it finished
\* never sends scan-complete.
C15_LostScanIsSilent ==
    [][\A p \in Procs :
          (procs[p].kind = "scan" /\ TokenLost(p)) => ~Sends(p, {"scan-complete"})]_vars

\* C15 witness: a scan that went into its loop has ended and sent neither
\* scan-complete nor an error
C15_Witness ==
    \E p \in Procs :
        /\ procs[p].kind = "scan" /\ procs[p].pc = "done"
        /\ TokenLost(p)
        /\ procs[p].scannedCount >= 1
        /\ SentOf(p, {"scan-complete", "error"}) = <<>>

\* the lists sent in scan-complete messages so far, by any invocation
AllCompleted == UNION {Completed(p) : p \in Procs}

\* C16 (as claimed): foundImages is replaced only when a scan completes
\* normally, so it is the list of a scan-complete message (the initial
\* empty list before the first one); a scan whose token is inactive when
\* it finishes leaves it as it was.
C16_PublishedOnlyOnCompletion ==
    foundImages = <<>> \/ foundImages \in AllCompleted

\* C17 (as claimed): once the token of a fetch is inactive, the fetch
\* sends no further images-batch-ready and no further download-progress
\* message.
C17_InactiveFetchIsSilent ==
    [][\A p \in Procs :
          (procs[p].kind = "download" /\ InFlight(p)
             /\ ~isActive(currentOperation, procs[p].opId))
          => ~Sends(p, {"images-batch-ready", "download-progress"})]_vars

\* C18 (as claimed): when the token of a fetch is inactive while an item
\* waits between two attempts, the item makes no further attempt: its
\* next step rejects it as cancelled, its attempt count as it was.
C18_NoAttemptAfterInactive ==
    [][\A p \in Procs : \A k \in 1..Len(procs[p].items) :
          (/\ procs[p].items[k].pc = "delay"
           /\ ~isActive(currentOperation, procs[p].opId)
           /\ k <= Len(procs'[p].items)
           /\ procs'[p].items[k] # procs[p].items[k])
          => /\ procs'[p].items[k].pc = "rejected"
             /\ procs'[p].items[k].reason = "Operation cancelled during retry"
             /\ procs'[p].items[k].attempt = procs[p].items[k].attempt]_vars

\* an item whose attempt fails while the token is inactive, and which has
\* attempts left, is rejected as cancelled at once, without a delay
CancelledAtCatch ==
    [][\A p \in Procs : \A k \in 1..Len(procs[p].items) :
          (/\ procs[p].items[k].pc \in {"size", "bytes"}
           /\ procs[p].items[k].attempt < MAX_RETRY_ATTEMPTS
           /\ ~isActive(currentOperation, procs[p].opId)
           /\ k <= Len(procs'[p].items))
          => \/ procs'[p].items[k].pc \in {"size", "bytes", "fulfilled"}
             \/ /\ procs'[p].items[k].pc = "rejected"
                /\ procs'[p].items[k].reason = "Operation cancelled during retry"
                /\ procs'[p].items[k].attempt = procs[p].items[k].attempt]_vars

\* what holds of an item of a batch at any time: it is in its first to
\* third attempt; when it waits, it has an attempt left and waits
\* RETRY_DELAY_MS times the number of the attempt that failed; when it
\* gave up, it had made MAX_RETRY_ATTEMPTS attempts
ItemBounds(it) ==
    /\ it.attempt \in 1..MAX_RETRY_ATTEMPTS
    /\ it.pc = "delay"
       => /\ it.attempt < MAX_RETRY_ATTEMPTS
          /\ it.delayMs = RETRY_DELAY_MS * it.attempt
    /\ (it.pc = "rejected" /\ it.reason = "Failed to fetch after attempts")
       => it.attempt = MAX_RETRY_ATTEMPTS

\* what holds of a step of an item: a fulfilled item stays as it is, and
\* an attempt begins only when a delay ends, one attempt at a time
ItemStepBounds(it, next) ==
    /\ it.pc = "fulfilled" => next = it
    /\ next.attempt \in {it.attempt, it.attempt + 1}
    /\ next.attempt = it.attempt + 1 => it.pc = "delay"
    /\ it.pc = "delay" => next.attempt = it.attempt + 1

\* C19: every item of a batch is attempted at least once and at most
\* MAX_RETRY_ATTEMPTS times, a successful attempt ends its retries, the
\* delay between attempt k and attempt k + 1 is RETRY_DELAY_MS * k, and
\* there is no delay after the final failed attempt.
C19_RetryBounds ==
    /\ [](\A p \in Procs : \A k \in 1..Len(procs[p].items) :
             ItemBounds(procs[p].items[k]))
    /\ [][\A p \in Procs : \A k \in 1..Len(procs[p].items) :
             (k <= Len(procs'[p].items) /\ procs'[p].items[k] # procs[p].items[k])
             => ItemStepBounds(procs[p].items[k], procs'[p].items[k])]_vars

\* C19 witness: in one batch an item gave up after its third attempt and
\* another was fulfilled by its first
C19_Witness ==
    \E p \in Procs : \E k, j \in 1..Len(procs[p].items) :
        /\ procs[p].items[k].pc = "rejected"
        /\ procs[p].items[k].attempt = MAX_RETRY_ATTEMPTS
        /\ procs[p].items[j].pc = "fulfilled"
        /\ procs[p].items[j].attempt = 1

\* C20 (as claimed): a fetch that sent download-start does not end
\* silently: when its handler has returned (which is final: an invocation
\* that is done takes no further step), it has sent exactly one of
\* download-finish and the cancellation failure.
C20_NeverEndsSilently ==
    \A p \in Procs :
        (procs[p].kind = "download" /\ procs[p].pc = "done"
           /\ SentOf(p, {"download-start"}) # <<>>)
        => Len(SelectSeq(procs[p].sent,
                   LAMBDA e : e = [type |-> "download-finish"] \/ e = CancelOutcome))
             = 1

\* the same for the fetches whose token was active when their last batch
\* was joined
EndsLoudlyUnlessLastBatch ==
    \A p \in Procs :
        (procs[p].kind = "download" /\ procs[p].pc = "done"
           /\ SentOf(p, {"download-start"}) # <<>>
           /\ (cancels = 0 \/ procs[p].cancelSeen))
        => Len(SelectSeq(procs[p].sent,
                   LAMBDA e : e = [type |-> "download-finish"] \/ e = CancelOutcome))
             = 1

\* the position of the image with the given hash in the request of p
InputIndex(p, hash) ==
    CHOOSE k \in 1..Len(procs[p].images) : procs[p].images[k].hash = hash

\* the images-batch-ready messages of p so far
BatchEvents(p) == SentOf(p, {"images-batch-ready"})

\* the number of images in the images-batch-ready messages of p so far
RECURSIVE DeliveredCount(_)
DeliveredCount(evs) ==
    IF evs = <<>> THEN 0 ELSE Len(Head(evs).images) + DeliveredCount(Tail(evs))

\* C21: the outcomes of the items of a batch are collected independently:
\* an item that succeeded is in the images-batch-ready message of its
\* batch whatever became of its siblings; every image of the request is in
\* at most one such message, the images of a message in the order of the
\* request; and when a fetch that was never cancelled has ended, the
\* images delivered and failedCount add up to the images requested.
C21_IndependentOutcomes ==
    /\ [](\A p \in Procs :
            LET evs == BatchEvents(p)
            IN  /\ \A e \in 1..Len(evs) : \A a, b \in 1..Len(evs[e].images) :
                      a < b => InputIndex(p, evs[e].images[a].hash)
                                 < InputIndex(p, evs[e].images[b].hash)
                /\ \A e, f \in 1..Len(evs) :
                      e # f => \A a \in 1..Len(evs[e].images) :
                                 \A b \in 1..Len(evs[f].images) :
                                    evs[e].images[a].hash # evs[f].images[b].hash
                /\ (procs[p].kind = "download" /\ procs[p].pc = "done"
                      /\ cancels = 0)
                   => DeliveredCount(evs) + procs[p].failedCount
                        = Len(procs[p].images))
    /\ [][\A p \in Procs :
            (procs[p].pc = "fetchJoin" /\ procs'[p].pc # "fetchJoin")
            => \A k \in 1..Len(procs[p].items) :
                  procs[p].items[k].pc = "fulfilled"
                  => /\ Sends(p, {"images-batch-ready"})
                     /\ procs[p].items[k].imgInfo.hash
                          \in {Last(BatchEvents(p)').images[j].hash :
                                 j \in 1..Len(Last(BatchEvents(p)').images)}]_vars

\* C21 witness: the first image of a batch failed, or was given up as
\* cancelled, and the second one of the same batch was delivered
C21_Witness ==
    \E p \in Procs :
        /\ Len(procs[p].images) >= 2
        /\ procs[p].images[1].hash \in procs[p].failedHashes
        /\ procs[p].images[2].hash \in Delivered(p)

\* the messages of a fetch that go to the presentation layer as events of
\* the download
FetchEvents(p) ==
    SentOf(p, {"download-progress", "download-start", "images-batch-ready",
               "download-finish"})

IsProgress(e, phase) == e.type = "download-progress" /\ e.phase = phase

\* the order of the events s of a fetch of n images that counted failed
\* failures: Preparing, download-start, then per batch an optional
\* images-batch-ready and a progress message, then possibly the final
\* progress message and download-finish right after it, at the very end
FetchOrder(s, n, failed) ==
    /\ Len(s) >= 1
       => s[1] = [type |-> "download-progress", phase |-> "Preparing...",
                  progress |-> 0, current |-> 0, total |-> n]
    /\ Len(s) >= 2 => (s[2].type = "download-start" /\ s[2].totalImages = n)
    /\ \A k \in 3..Len(s) :
          /\ s[k].type # "download-start"
          /\ ~IsProgress(s[k], "Preparing...")
          /\ s[k].type = "images-batch-ready"
             => /\ k < Len(s)
                /\ IsProgress(s[k + 1], "Fetching image data...")
                /\ s[k - 1].type # "images-batch-ready"
          /\ IsProgress(s[k], "Fetching image data...")
             => \A j \in 3..(k - 1) :
                   s[j].type = "images-batch-ready"
                   \/ IsProgress(s[j], "Fetching image data...")
          /\ IsProgress(s[k], "Sending data to UI...")
             => /\ k = Len(s) - 1
                /\ s[k + 1] = [type |-> "download-finish"]
                /\ s[k].progress = 100
                /\ s[k].current = n - failed
                /\ s[k].total = n
                /\ s[k].eta = "Done"
          /\ s[k].type = "download-finish"
             => /\ k = Len(s)
                /\ IsProgress(s[k - 1], "Sending data to UI...")

\* C22: the events of a fetch come in the order Preparing, download-start,
\* per batch an optional images-batch-ready then progress, and, only if
\* the token is active after the last batch, the final progress message
\* (100, current = total - failedCount, eta Done) with download-finish
\* right after it; download-finish is sent at most once and is the last
\* message of the fetch; so too for an empty list of images.
C22_FetchEventOrder ==
    /\ [](\A p \in Procs :
            procs[p].kind = "download"
            => /\ FetchOrder(FetchEvents(p), Len(procs[p].images),
                             procs[p].failedCount)
               /\ Len(SentOf(p, {"download-finish"})) <= 1
               /\ SentOf(p, {"download-finish"}) # <<>>
                  => (Last(procs[p].sent).type = "download-finish"
                        /\ procs[p].pc = "done"))
    /\ [][\A p \in 1..Len(procs') :
            (procs'[p].kind = "download"
               /\ SentOf(p, {"download-finish"})' # <<>>
               /\ (p > Len(procs) \/ SentOf(p, {"download-finish"}) = <<>>))
            => isActive(currentOperation', procs'[p].opId)]_vars

\* C22 witness: a fetch of more than one batch has ended with
\* download-finish, after a warning
C22_Witness ==
    \E p \in Procs :
        /\ procs[p].kind = "download" /\ procs[p].pc = "done"
        /\ Len(procs[p].images) > BATCH_SIZE
        /\ SentOf(p, {"notify"}) # <<>>
        /\ Len(BatchEvents(p)) >= 2
        /\ Last(procs[p].sent).type = "download-finish"

\* a fetch of no image has ended: it sent Preparing, download-start, the
\* final progress message and download-finish
EmptyFetchEnded ==
    \E p \in Procs :
        /\ procs[p].kind = "download" /\ procs[p].pc = "done"
        /\ procs[p].images = <<>>
        /\ Len(FetchEvents(p)) = 4
        /\ Last(procs[p].sent).type = "download-finish"


RECURSIVE Preorder(_, _)
\* the nodes below the given nodes in depth-first order, a node before its
\* children, the children in their original order, a node's descendants
\* before its later siblings
Preorder(d, nodes) ==
    IF nodes = <<>> THEN <<>>
    ELSE <<Head(nodes)>> \o Preorder(d, children(d, Head(nodes)))
                         \o Preorder(d, Tail(nodes))

\* s is the beginning of t
IsPrefix(s, t) == Len(s) <= Len(t) /\ s = SubSeq(t, 1, Len(s))

\* C23 (as claimed): a scan visits the nodes in depth-first order, the
\* children of every container in their original order, the descendants
\* of a node before its later siblings.
C23_DepthFirstOrder ==
    \A p \in Procs :
        (procs[p].kind = "scan" /\ procs[p].pc # "done")
        => IsPrefix(procs[p].visited,
                    Preorder(doc, StartNodes(procs[p].scanMode)))

\* what the scan does keep to: a node is visited after its parent, and
\* the children of one node are visited in their original order
ParentFirstSiblingsInOrder ==
    \A p \in Procs :
        LET v == procs[p].visited
        IN  \A a, b \in 1..Len(v) :
                /\ doc[v[b]].parent = v[a] => a < b
                /\ (doc[v[a]].parent = doc[v[b]].parent /\ doc[v[a]].parent # 0
                      /\ v[a] < v[b])
                   => a < b

\* the same as C23 for the scans that start from a single node
SingleRootDepthFirst ==
    \A p \in Procs :
        (procs[p].kind = "scan" /\ Len(StartNodes(procs[p].scanMode)) = 1)
        => IsPrefix(procs[p].visited,
                    Preorder(doc, StartNodes(procs[p].scanMode)))

\* the hashes of the image paints of a list of paints, in order
RECURSIVE PaintHashes(_)
PaintHashes(paints) ==
    IF paints = <<>> THEN <<>>
    ELSE (IF IsImagePaint(Head(paints)) THEN <<Head(paints).imageHash>> ELSE <<>>)
         \o PaintHashes(Tail(paints))

\* the image hashes met on the nodes visited, in the order they are met:
\* node by node, the fills of a node before its strokes
RECURSIVE Encounters(_, _)
Encounters(d, visited) ==
    IF visited = <<>> THEN <<>>
    ELSE LET n == Head(visited)
         IN  (IF d[n].hasFills THEN PaintHashes(d[n].fills) ELSE <<>>)
             \o (IF d[n].hasStrokes THEN PaintHashes(d[n].strokes) ELSE <<>>)
             \o Encounters(d, Tail(visited))

\* s without the later occurrences of its elements
RECURSIVE FirstOccurrences(_)
FirstOccurrences(s) ==
    IF s = <<>> THEN <<>>
    ELSE LET front == FirstOccurrences(SubSeq(s, 1, Len(s) - 1))
         IN  IF s[Len(s)] \in Range(front) THEN front
             ELSE Append(front, s[Len(s)])

\* the first node visited that references the hash
FirstNode(d, visited, hash) ==
    visited[CHOOSE k \in 1..Len(visited) :
                /\ \E paint \in ImagePaints(d, visited[k]) : paint.imageHash = hash
                /\ \A j \in 1..(k - 1) :
                      \A paint \in ImagePaints(d, visited[j]) : paint.imageHash # hash]

\* C24: first occurrence wins: the entries of the discovered map are the
\* hashes in the order of their first encounter, each entry named after
\* the first node met that references its hash and carrying that node's
\* container name; a later encounter of a hash changes and removes no
\* entry and adds nothing to the name set.
C24_FirstOccurrenceWins ==
    /\ [](\A p \in Procs :
            LET imgs == MapValues(procs[p].uniqueImages)
                v == procs[p].visited
            IN  /\ Hashes(imgs) = FirstOccurrences(Encounters(doc, v))
                /\ Cardinality(procs[p].existingNames) = Len(imgs)
                /\ \A j \in 1..Len(imgs) :
                      LET n == FirstNode(doc, v, imgs[j].hash)
                          base == sanitizeFileName(doc[n].name)
                      IN  /\ imgs[j].name \in
                               {base} \cup {Suffixed(base, k) : k \in 1..Len(imgs)}
                          /\ imgs[j].frame = FrameWalk(doc, n))
    /\ [][\A p \in Procs :
            /\ IsPrefix(procs[p].uniqueImages, procs'[p].uniqueImages)
            /\ procs[p].existingNames \subseteq procs'[p].existingNames]_vars

\* C24 witness: a scan completed on a page where two nodes with different
\* container names reference the same hash
C24_Witness ==
    \E p \in Procs : \E imgs \in Completed(p) :
        \E a, b \in Range(procs[p].visited) : \E j \in 1..Len(imgs) :
            /\ a # b
            /\ \E paint \in ImagePaints(doc, a) : paint.imageHash = imgs[j].hash
            /\ \E paint \in ImagePaints(doc, b) : paint.imageHash = imgs[j].hash
            /\ FrameWalk(doc, a) # FrameWalk(doc, b)

\* One scan on the event loop.  The page and the selection the scan will
\* find are settled in a first step, before the request; a scan that holds
\* the thread goes on with its loop, and the timer of yieldToMain() fires.
InitScanFair ==
    /\ InitCommon
    /\ uiReady = TRUE
    /\ doc = <<>>
    /\ selection = <<>>
    /\ faults = 0
    /\ call = NoCall

\* figma.currentPage and its selection as the scan reads them
PageEdited ==
    /\ running = 0
    /\ Len(procs) = 0
    /\ doc = <<>>
    /\ doc' \in (Docs \cup {BranchDoc}) \ {<<>>}
    /\ selection' \in SelectionsOf(doc')
    /\ UNCHANGED <<now, currentOperation, uiReady, foundImages, procs, running,
                   out, issued, cancels, cancelSinceStart, faults, call>>

NextScanFair ==
    \/ PageEdited
    \/ NextScan

\* ScanLoop(p) is enabled exactly when the scan p holds the thread inside
\* its loop, ScanResume(p) exactly when p waits for its timer with the
\* thread free
ScanLoopEnabled == \E p \in 1..Len(procs) : running = p /\ procs[p].pc = "scan"

ScanResumeEnabled == \E p \in 1..Len(procs) : running = 0 /\ procs[p].pc = "scanYield"

\* weak fairness of the two scan steps, WF_vars(A) written out as
\* []<>(~ENABLED <<A>>_vars) \/ []<><<A>>_vars
SpecScanFair ==
    /\ InitScanFair
    /\ [][NextScanFair]_vars
    /\ ([]<>(~ScanLoopEnabled) \/ []<><<\E p \in 1..Len(procs) : ScanLoop(p)>>_vars)
    /\ ([]<>(~ScanResumeEnabled) \/ []<><<\E p \in 1..Len(procs) : ScanResume(p)>>_vars)

\* the nodes reachable from the start nodes of a scan
ReachableNodes(scanMode) == Descendants(doc, Range(StartNodes(scanMode)))

\* no node is processed twice; a completed scan has an empty stack and has
\* processed exactly the nodes reachable from its start nodes, below the
\* running estimate
EachReachableNodeOnce ==
    \A p \in Procs :
        procs[p].kind = "scan" =>
            /\ NoRepeat(procs[p].visited)
            /\ procs[p].scannedCount = Len(procs[p].visited)
            /\ Range(procs[p].visited) \subseteq ReachableNodes(procs[p].scanMode)
            /\ SentOf(p, {"scan-complete"}) # <<>> =>
                  /\ procs[p].stack = <<>>
                  /\ Range(procs[p].visited) = ReachableNodes(procs[p].scanMode)
                  /\ procs[p].scannedCount =
                         Cardinality(ReachableNodes(procs[p].scanMode))
                  /\ StartNodes(procs[p].scanMode) # <<>> =>
                         procs[p].scannedCount < procs[p].totalEstimated

\* the while loop is left only with an empty stack or an inactive token
LoopEndsOnEmptyStack ==
    [][\A p \in Procs :
          (procs[p].pc = "scan" /\ procs'[p].pc = "done")
          => (procs[p].stack = <<>>
              \/ ~isActive(currentOperation, procs[p].opId))]_vars

\* C25: a scan that is never cancelled terminates; it leaves the loop only
\* with an empty stack; no node is processed twice, and at completion the
\* nodes processed are exactly the nodes reachable from the start nodes,
\* scannedCount being their number; the loop ends although scannedCount
\* has not reached the running estimate.
C25_ScanTerminates ==
    /\ []EachReachableNodeOnce
    /\ [][\A p \in Procs :
            (procs[p].pc = "scan" /\ procs'[p].pc = "done") => procs[p].stack = <<>>]_vars
    /\ (Len(procs) > 0)
          ~> (/\ Len(procs) > 0
              /\ procs[1].pc = "done"
              /\ procs[1].stack = <<>>
              /\ \/ SentOf(1, {"scan-complete"}) # <<>>
                 \/ SentOf(1, {"error"}) # <<>>)

\* C25 witness: a scan completed after processing a node, its child and
\* its grandchild
C25_Witness ==
    \E p \in Procs :
        /\ SentOf(p, {"scan-complete"}) # <<>>
        /\ \E a, b, c \in Range(procs[p].visited) :
              doc[b].parent = a /\ doc[c].parent = b

\* C26: newest request wins: of two operation requests, both issued
\* tokens, the one received later was issued its token later, so the
\* current token is never that of the earlier request (invocations are
\* numbered in the order their requests are received; startIdx is the
\* position of an invocation's token among the tokens issued).
C26_NewestRequestWins ==
    \A p, q \in Procs :
        (p < q /\ procs[p].startIdx > 0 /\ procs[q].startIdx > 0)
        => procs[p].startIdx < procs[q].startIdx

\* the order is broken only by a download that waited for ui-ready
NewestWinsWithoutWait ==
    [][(\A p \in Procs : procs[p].pc # "dlWait")
       => (C26_NewestRequestWins => C26_NewestRequestWins')]_vars

\* a cancel-operation message was handled after every request received so
\* far: after the request of p, and no operation was requested since
CancelledSinceLastRequest ==
    \A q \in Procs : procs[q].cancelsAtRecv < cancels

\* C27: once a cancel-operation request has been handled, no operation
\* requested before it, a download still waiting for ui-ready included,
\* sends download-start, download-finish or scan-complete, until a new
\* operation is requested.
C27_SilentAfterCancel ==
    [][CancelledSinceLastRequest =>
          \A p \in Procs :
              ~Sends(p, {"download-start", "download-finish", "scan-complete"})]_vars

\* the same while every request received before the cancel had been
\* issued its token when the cancel was handled
SilentAfterCancelWithoutWait ==
    [][(/\ CancelledSinceLastRequest
        /\ \A q \in Procs : procs[q].startIdx > 0
                             /\ procs[q].cancelsAtStart < cancels)
       => \A p \in Procs :
              ~Sends(p, {"download-start", "download-finish", "scan-complete"})]_vars
====
